---------------------------- MODULE Spec2Model ----------------------------
(***************************************************************************)
(* The ATLAS easyblock (easybuild/easyblocks/a/ATLAS.py): the build        *)
(* pipeline configure -> setparallelism -> make -> test -> make_install -> *)
(* sanitycheck of one package build, over the shared configuration record  *)
(* self.cfg, the process working directory and the shell commands handed   *)
(* to run_cmd.                                                             *)
(*                                                                         *)
(* Representation.  An optional value (Python None or a value) is a        *)
(* sequence of length at most one: << >> is None, <<v>> is v.  Captured    *)
(* command output is a sequence of one-character strings, so that the      *)
(* throttling regular expression is matched character by character.        *)
(* 'configopts' is the ordered sequence of fragments passed to updatecfg.  *)
(* A path is the sequence of directory names below the directory the       *)
(* driver starts configure in.                                             *)
(***************************************************************************)
EXTENDS Integers, Sequences, FiniteSets, TLC

VARIABLES
    cfg,         \* self.cfg: the shared mutable configuration record
    installdir,  \* self.installdir
    env,         \* the process environment read with os.getenv
    tkpic,       \* self.tk.opts['pic']
    cwd,         \* the process working directory
    objExists,   \* whether a directory obj exists in the start directory
    cmds,        \* every command handed to the shell, in order
    log,         \* self.log: the non-fatal records (debug, info, warning)
    failure,     \* the fatal error raised, NoFailure while none was raised
    stage,       \* the stage the driver calls next
    done,        \* the stages the driver has called, in order
    cwdOnEntry   \* the working directory on entry of the last stage called

vars == <<cfg, installdir, env, tkpic, cwd, objExists, cmds, log, failure,
          stage, done, cwdOnEntry>>

----------------------------------------------------------------------------
(* Python values *)

None == << >>

Some(v) == <<v>>

\* Python truth value of an optional string: None and '' are false
Truthy(v) == v # None /\ v[1] # ""

\* '%s' % v
Str(v) == IF v = None THEN "None" ELSE v[1]

os_getenv(name) == env[name]

getcfg(c, key) == c[key]

setcfg(c, key, value) == [c EXCEPT ![key] = value]

updatecfg(c, key, value) == [c EXCEPT ![key] = Append(@, value)]

----------------------------------------------------------------------------
(* Inputs of one build *)

RequestedParallelism == {0, 1, 4, 64}

PresetConfigopts == {<< >>, <<"-v 2">>}

LapackRoots == {None, Some(""), Some("/opt/lapack")}

CompilerEnvs == {[CC |-> None, F77 |-> None],
                 [CC |-> Some("gcc"), F77 |-> Some("gfortran")]}

RuntestSettings == {None, Some("test")}

ExitCodes == {0, 1}

PresetSanityCheckPaths ==
    [files |-> <<"lib/libatlas.a">>, dirs |-> <<"include">>]

OutWasEnabled ==
    <<"C", "P", "U", " ", "t", "h", "r", "o", "t", "t", "l", "i", "n", "g",
      " ", "w", "a", "s", " ", "e", "n", "a", "b", "l", "e", "d">>

OutEmbedded ==
    <<"x", ":", " ", "c", "p", "u", " ", "T", "h", "r", "o", "t", "t", "l",
      "i", "n", "g", " ", "a", "p", "p", "a", "r", "e", "n", "t", "l", "y",
      " ", "E", "N", "A", "B", "L", "E", "D", "!">>

OutNoWord ==
    <<"c", "p", "u", " ", "t", "h", "r", "o", "t", "t", "l", "i", "n", "g",
      " ", " ", "e", "n", "a", "b", "l", "e", "d">>

OutOneSpace ==
    <<"c", "p", "u", " ", "t", "h", "r", "o", "t", "t", "l", "i", "n", "g",
      " ", "e", "n", "a", "b", "l", "e", "d">>

OutTwoWords ==
    <<"c", "p", "u", " ", "t", "h", "r", "o", "t", "t", "l", "i", "n", "g",
      " ", "i", "s", " ", "n", "o", "w", " ", "e", "n", "a", "b", "l", "e",
      "d">>

OutDigit ==
    <<"c", "p", "u", " ", "t", "h", "r", "o", "t", "t", "l", "i", "n", "g",
      " ", "2", "x", " ", "e", "n", "a", "b", "l", "e", "d">>

OutNoCompiler ==
    <<"n", "o", " ", "C", " ", "c", "o", "m", "p", "i", "l", "e", "r", " ",
      "f", "o", "u", "n", "d">>

OutEmpty == << >>

Outputs == {OutWasEnabled, OutEmbedded, OutNoWord, OutOneSpace, OutTwoWords,
            OutDigit, OutNoCompiler, OutEmpty}

----------------------------------------------------------------------------
(* The throttling regular expression *)

LowerCase ==
    <<"a", "b", "c", "d", "e", "f", "g", "h", "i", "j", "k", "l", "m", "n",
      "o", "p", "q", "r", "s", "t", "u", "v", "w", "x", "y", "z">>

UpperCase ==
    <<"A", "B", "C", "D", "E", "F", "G", "H", "I", "J", "K", "L", "M", "N",
      "O", "P", "Q", "R", "S", "T", "U", "V", "W", "X", "Y", "Z">>

IsLower(ch) == \E i \in 1..26 : LowerCase[i] = ch

IsUpper(ch) == \E i \in 1..26 : UpperCase[i] = ch

\* the character class [a-zA-Z]
IsAlpha(ch) == IsLower(ch) \/ IsUpper(ch)

ToLower(ch) ==
    IF IsUpper(ch) THEN LowerCase[CHOOSE i \in 1..26 : UpperCase[i] = ch]
    ELSE ch

\* the literal parts of "cpu throttling [a-zA-Z]* enabled"
ThrottlingHead ==
    <<"c", "p", "u", " ", "t", "h", "r", "o", "t", "t", "l", "i", "n", "g",
      " ">>

ThrottlingTail == <<" ", "e", "n", "a", "b", "l", "e", "d">>

\* lit, given in lower case, occurs in s at position i, ignoring case
MatchesLiteral(s, i, lit) ==
    /\ i + Len(lit) - 1 <= Len(s)
    /\ \A k \in 1..Len(lit) : ToLower(s[i + k - 1]) = lit[k]

\* the pattern matches s starting at position i
MatchesAt(s, i) ==
    /\ MatchesLiteral(s, i, ThrottlingHead)
    /\ \E n \in 0..Len(s) :
          /\ i + Len(ThrottlingHead) + n - 1 <= Len(s)
          /\ \A k \in 0..(n - 1) : IsAlpha(s[i + Len(ThrottlingHead) + k])
          /\ MatchesLiteral(s, i + Len(ThrottlingHead) + n, ThrottlingTail)

\* the search without re.IGNORECASE
throttling_regexp_search_cased(out) ==
    \E i \in 1..Len(out) :
       LET body == i + Len(ThrottlingHead)
           literal(j, lit) ==
               /\ j + Len(lit) - 1 <= Len(out)
               /\ \A k \in 1..Len(lit) : out[j + k - 1] = lit[k]
       IN  /\ literal(i, ThrottlingHead)
           /\ \E n \in 0..Len(out) :
                 /\ body + n - 1 <= Len(out)
                 /\ \A k \in 0..(n - 1) : IsAlpha(out[body + k])
                 /\ literal(body + n, ThrottlingTail)

\* re.compile("cpu throttling [a-zA-Z]* enabled", re.IGNORECASE).search(out)
throttling_regexp_search(out) == \E i \in 1..Len(out) : MatchesAt(out, i)

----------------------------------------------------------------------------
(* Fatal errors: self.log.error raises, and the driver stops the build *)

NoFailure == [kind |-> "none", text |-> "", out |-> None]

Error(kind, text) == [kind |-> kind, text |-> text, out |-> None]

\* an error whose message interpolates the captured output
ErrorWithOutput(kind, text, out) ==
    [kind |-> kind, text |-> text, out |-> Some(out)]

LogRecord(level, msg) == [level |-> level, msg |-> msg]

\* one entry of the record of commands handed to the shell
Command(stg, cmd, dir, ec, out) ==
    [stage |-> stg, cmd |-> cmd, cwd |-> dir, ec |-> ec, out |-> out]

StageOrder ==
    <<"configure", "setparallelism", "make", "test", "make_install",
      "sanitycheck">>

\* the stage the driver calls after stg
NextStage(stg) ==
    IF stg = "sanitycheck" THEN "done"
    ELSE StageOrder[1 + CHOOSE i \in 1..5 : StageOrder[i] = stg]

\* the driver's bookkeeping around the call of stage stg that raised f
\* (NoFailure when it returned)
Driver(stg, f) ==
    /\ failure' = f
    /\ stage' = IF f = NoFailure THEN NextStage(stg) ELSE "aborted"
    /\ done' = Append(done, stg)
    /\ cwdOnEntry' = cwd

----------------------------------------------------------------------------
(* The state the driver hands to the pipeline *)

Init ==
    /\ \E it \in BOOLEAN, fl \in BOOLEAN, sl \in BOOLEAN,
          co \in PresetConfigopts, rt \in RuntestSettings,
          par \in RequestedParallelism,
          scp \in {None, Some(PresetSanityCheckPaths)} :
          cfg = [configopts |-> co,
                 preconfigopts |-> "",
                 startfrom |-> "/build/ATLAS",
                 ignorethrottling |-> it,
                 full_lapack |-> fl,
                 sharedlibs |-> sl,
                 runtest |-> rt,
                 parallel |-> par,
                 sanityCheckPaths |-> scp]
    /\ installdir = "/software/ATLAS"
    /\ \E root \in LapackRoots, cc \in CompilerEnvs :
          env = [SOFTROOTLAPACK |-> root, CC |-> cc.CC, F77 |-> cc.F77]
    /\ tkpic \in BOOLEAN
    /\ cwd = << >>
    /\ objExists \in BOOLEAN
    /\ cmds = << >>
    /\ log = << >>
    /\ failure = NoFailure
    /\ stage = "configure"
    /\ done = << >>
    /\ cwdOnEntry = << >>

----------------------------------------------------------------------------
(* ATLAS.configure *)

\* lines 25-31: the 64-bit flag, and the throttling-check flag
ThrottlingOpts(c) ==
    LET c1 == updatecfg(c, "configopts", "-b 64")
    IN  IF getcfg(c1, "ignorethrottling")
        THEN updatecfg(c1, "configopts", "-Si cputhrchk 0")
        ELSE c1

\* the check with "is None" in place of the truth value: '' counts as a root
LapackMissing_noneOnly(c) ==
    getcfg(c, "full_lapack") /\ os_getenv("SOFTROOTLAPACK") = None

\* lines 35-39: a full LAPACK is asked for and SOFTROOTLAPACK is not there
LapackMissing(c) ==
    getcfg(c, "full_lapack") /\ ~Truthy(os_getenv("SOFTROOTLAPACK"))

\* lines 35-37: the netlib LAPACK flag
LapackOpts(c) ==
    IF getcfg(c, "full_lapack") /\ Truthy(os_getenv("SOFTROOTLAPACK"))
    THEN updatecfg(c, "configopts",
                   " --with-netlib-lapack=" \o
                   Str(os_getenv("SOFTROOTLAPACK")) \o "/lib/liblapack.a")
    ELSE c

\* line 42
WantsPic(c) == getcfg(c, "sharedlibs") \/ tkpic

\* the flag for shared libraries only, the toolkit's pic option forgotten
PicOpts_sharedOnly(c) ==
    IF getcfg(c, "sharedlibs")
    THEN updatecfg(c, "configopts", "-Fa alg -fPIC")
    ELSE c

\* lines 42-44: the -fPIC flag
PicOpts(c) ==
    IF WantsPic(c) THEN updatecfg(c, "configopts", "-Fa alg -fPIC") ELSE c

\* lines 55-58: the compilers
CompilerOpts(c) ==
    updatecfg(c, "configopts",
              "-C ic " \o Str(os_getenv("CC")) \o
              " -C if " \o Str(os_getenv("F77")))

\* lines 61-62: the configure command line
ConfigureCmd(c) ==
    <<getcfg(c, "preconfigopts"), getcfg(c, "startfrom") \o "/configure",
      "--prefix=" \o installdir>> \o getcfg(c, "configopts")

ThrottlingHint ==
    "Configure failed, because CPU throttling is enabled; ATLAS doesn't like that. You can either disable CPU throttling, or set 'ignorethrottling' to True in the ATLAS .eb spec file. Also see http://math-atlas.sourceforge.net/errata.html#cputhrottle ."

GenericConfigureText ==
    "configure output: %s\nConfigure failed, not sure why (see output above)."

\* the generic error without the captured output
ConfigureError_noOutput(ec, out) ==
    IF ec # 0
    THEN IF throttling_regexp_search(out)
         THEN Error("ThrottlingDetected", ThrottlingHint)
         ELSE Error("ConfigureFailed", GenericConfigureText)
    ELSE NoFailure

\* the output searched for the throttling pattern whatever the exit code
ConfigureError_outputFirst(ec, out) ==
    IF throttling_regexp_search(out)
    THEN Error("ThrottlingDetected", ThrottlingHint)
    ELSE IF ec # 0
    THEN ErrorWithOutput("ConfigureFailed", GenericConfigureText, out)
    ELSE NoFailure

\* lines 65-74: the error configure raises for exit code ec and output out
ConfigureError(ec, out) ==
    IF ec # 0
    THEN IF throttling_regexp_search(out)
         THEN Error("ThrottlingDetected", ThrottlingHint)
         ELSE ErrorWithOutput("ConfigureFailed", GenericConfigureText, out)
    ELSE NoFailure

\* os.makedirs that accepts an obj directory that is already there
MakedirsFails_existOk(makedirsErr) == makedirsErr

\* line 49: os.makedirs raises when obj exists or cannot be created
MakedirsFails(makedirsErr) == objExists \/ makedirsErr

\* lines 47-52: the try block raised OSError, in makedirs or in chdir
ObjdirFails(makedirsErr, chdirErr) == MakedirsFails(makedirsErr) \/ chdirErr

\* the value of self.cfg when configure returns or raises
ConfigureCfg(c, makedirsErr, chdirErr) ==
    LET c2 == ThrottlingOpts(c)
        c4 == PicOpts(LapackOpts(c2))
    IN  IF LapackMissing(c2) THEN c2
        ELSE IF ObjdirFails(makedirsErr, chdirErr) THEN c4
        ELSE CompilerOpts(c4)

\* the working directory when configure returns or raises (line 50)
ConfigureCwd(c, makedirsErr, chdirErr) ==
    IF LapackMissing(c) \/ ObjdirFails(makedirsErr, chdirErr) THEN cwd
    ELSE Append(cwd, "obj")

\* whether obj exists when configure returns or raises (line 49)
ConfigureObjExists(c, makedirsErr) ==
    IF LapackMissing(c) \/ MakedirsFails(makedirsErr) THEN objExists
    ELSE TRUE

\* configure going on to run_cmd after the obj directory could not be entered
ConfigureCmds_afterError(c, makedirsErr, chdirErr, ec, out) ==
    IF LapackMissing(c) THEN << >>
    ELSE <<Command("configure",
                   ConfigureCmd(ConfigureCfg(c, makedirsErr, chdirErr)),
                   ConfigureCwd(c, makedirsErr, chdirErr), ec, out)>>

\* the commands configure hands to run_cmd (line 63)
ConfigureCmds(c, makedirsErr, chdirErr, ec, out) ==
    IF LapackMissing(c) \/ ObjdirFails(makedirsErr, chdirErr) THEN << >>
    ELSE <<Command("configure",
                   ConfigureCmd(ConfigureCfg(c, makedirsErr, chdirErr)),
                   ConfigureCwd(c, makedirsErr, chdirErr), ec, out)>>

\* the records configure leaves in the log (line 43)
ConfigureLog(c) ==
    IF ~LapackMissing(c) /\ WantsPic(c)
    THEN <<LogRecord("debug", "Enabling -fPIC because we're building shared ATLAS libs, or just because.")>>
    ELSE << >>

\* the error configure raises, NoFailure when it returns (lines 39, 52, 74)
ConfigureFailure(c, makedirsErr, chdirErr, ec, out) ==
    IF LapackMissing(c)
    THEN Error("MissingDependency", "netlib's LAPACK library not available, required to build ATLAS with a full LAPACK library.")
    ELSE IF ObjdirFails(makedirsErr, chdirErr)
    THEN Error("EnvironmentSetupError", "Failed to create obj directory to build in: %s")
    ELSE ConfigureError(ec, out)

Configure ==
    /\ stage = "configure"
    /\ \E makedirsErr \in BOOLEAN, chdirErr \in BOOLEAN,
          ec \in ExitCodes, out \in Outputs :
          /\ cfg' = ConfigureCfg(cfg, makedirsErr, chdirErr)
          /\ cwd' = ConfigureCwd(cfg, makedirsErr, chdirErr)
          /\ objExists' = ConfigureObjExists(cfg, makedirsErr)
          /\ cmds' = cmds \o ConfigureCmds(cfg, makedirsErr, chdirErr, ec, out)
          /\ log' = log \o ConfigureLog(cfg)
          /\ Driver("configure",
                    ConfigureFailure(cfg, makedirsErr, chdirErr, ec, out))
    /\ UNCHANGED <<installdir, env, tkpic>>

----------------------------------------------------------------------------
(* ATLAS.setparallelism *)

\* Application.setparallelism(self, nr)
Application_setparallelism(c, nr) == setcfg(c, "parallel", nr)

\* the requested parallelism passed on instead of 1
setparallelism_requested(c) ==
    Application_setparallelism(c, getcfg(c, "parallel"))

\* line 80
setparallelism(c) == Application_setparallelism(c, 1)

SetParallelism ==
    /\ stage = "setparallelism"
    /\ cfg' = setparallelism(cfg)
    /\ log' = Append(log, LogRecord("info", "Disabling parallel build, makes no sense for ATLAS."))
    /\ Driver("setparallelism", NoFailure)
    /\ UNCHANGED <<installdir, env, tkpic, cwd, objExists, cmds>>

----------------------------------------------------------------------------
(* ATLAS.make *)

\* what run_cmd(cmd, log_all=True, simple=True) leaves in the log: the
\* outcome of the command is reported, and a nonzero exit code does not raise
run_cmd_log(cmd, ec) ==
    <<LogRecord(IF ec # 0 THEN "warning" ELSE "info", cmd)>>

\* a generic step of Application (make, make_install) raises when its
\* command fails
StepError(ec) ==
    IF ec # 0 THEN Error("StepFailed", "default step failed") ELSE NoFailure

\* os.chdir('..')
ParentDir(dir) == IF dir = << >> THEN dir ELSE SubSeq(dir, 1, Len(dir) - 1)

SharedCmd == "make shared cshared ptshared cptshared"

\* shared libraries built whenever -fPIC was asked for
BuildsShared_orPic(c, makeEc) == makeEc = 0 /\ WantsPic(c)

\* line 88, reached when the default make returned
BuildsShared(c, makeEc) == makeEc = 0 /\ getcfg(c, "sharedlibs")

\* the error make raises, NoFailure when it returns (lines 85, 92, 101);
\* line 92 applies % to a format without a conversion and raises TypeError
MakeFailure(c, makeEc, chdirLibErr, chdirBackErr) ==
    IF makeEc # 0 THEN StepError(makeEc)
    ELSE IF ~getcfg(c, "sharedlibs") THEN NoFailure
    ELSE IF chdirLibErr
    THEN Error("TypeError", "not all arguments converted during string formatting")
    ELSE IF chdirBackErr
    THEN Error("EnvironmentSetupError", "Failed to get back to previous dir after building shared libs: %s ")
    ELSE NoFailure

\* make without the os.chdir('..') of line 99
MakeCwd_stays(c, makeEc, chdirLibErr, sharedEc, chdirBackErr) ==
    IF ~BuildsShared(c, makeEc) \/ chdirLibErr THEN cwd
    ELSE Append(cwd, "lib")

\* make leaving lib only when the shared-library command succeeded
MakeCwd_staysOnError(c, makeEc, chdirLibErr, sharedEc, chdirBackErr) ==
    IF ~BuildsShared(c, makeEc) \/ chdirLibErr THEN cwd
    ELSE IF chdirBackErr \/ sharedEc # 0 THEN Append(cwd, "lib")
    ELSE ParentDir(Append(cwd, "lib"))

\* the working directory when make returns or raises (lines 90, 99)
MakeCwd(c, makeEc, chdirLibErr, sharedEc, chdirBackErr) ==
    IF ~BuildsShared(c, makeEc) \/ chdirLibErr THEN cwd
    ELSE IF chdirBackErr THEN Append(cwd, "lib")
    ELSE ParentDir(Append(cwd, "lib"))

\* the shared libraries built before the default make
MakeCmds_sharedFirst(c, makeEc, chdirLibErr, sharedEc) ==
    (IF BuildsShared(c, makeEc) /\ ~chdirLibErr
     THEN <<Command("make", <<SharedCmd>>, Append(cwd, "lib"), sharedEc,
                    << >>)>>
     ELSE << >>)
    \o <<Command("make", <<"make">>, cwd, makeEc, << >>)>>

\* the shared libraries built without the os.chdir('lib') of line 90
MakeCmds_sharedInPlace(c, makeEc, chdirLibErr, sharedEc) ==
    <<Command("make", <<"make">>, cwd, makeEc, << >>)>>
    \o IF BuildsShared(c, makeEc) /\ ~chdirLibErr
       THEN <<Command("make", <<SharedCmd>>, cwd, sharedEc, << >>)>>
       ELSE << >>

\* the commands make hands to the shell (lines 85, 96)
MakeCmds(c, makeEc, chdirLibErr, sharedEc) ==
    <<Command("make", <<"make">>, cwd, makeEc, << >>)>>
    \o IF BuildsShared(c, makeEc) /\ ~chdirLibErr
       THEN <<Command("make", <<SharedCmd>>, Append(cwd, "lib"), sharedEc,
                      << >>)>>
       ELSE << >>

\* the records make leaves in the log (lines 94, 96)
MakeLog(c, makeEc, chdirLibErr, sharedEc) ==
    IF BuildsShared(c, makeEc) /\ ~chdirLibErr
    THEN <<LogRecord("debug", "Building shared libraries")>>
         \o run_cmd_log(SharedCmd, sharedEc)
    ELSE << >>

Make ==
    /\ stage = "make"
    /\ \E makeEc \in ExitCodes, chdirLibErr \in BOOLEAN,
          sharedEc \in ExitCodes, chdirBackErr \in BOOLEAN :
          /\ cwd' = MakeCwd(cfg, makeEc, chdirLibErr, sharedEc, chdirBackErr)
          /\ cmds' = cmds \o MakeCmds(cfg, makeEc, chdirLibErr, sharedEc)
          /\ log' = log \o MakeLog(cfg, makeEc, chdirLibErr, sharedEc)
          /\ Driver("make",
                    MakeFailure(cfg, makeEc, chdirLibErr, chdirBackErr))
    /\ UNCHANGED <<cfg, installdir, env, tkpic, objExists>>

----------------------------------------------------------------------------
(* ATLAS.test *)

\* Application.test(self): runs make <runtest> when runtest is set; the
\* outcome is reported and a failing target does not raise
Application_test_cmds(c, ec) ==
    IF Truthy(getcfg(c, "runtest"))
    THEN <<Command("test", <<"make " \o Str(getcfg(c, "runtest"))>>, cwd, ec,
                   << >>)>>
    ELSE << >>

Application_test_log(c, ec) ==
    IF Truthy(getcfg(c, "runtest"))
    THEN run_cmd_log("make " \o Str(getcfg(c, "runtest")), ec)
    ELSE << >>

\* lines 110, 114, 118: the targets, in the order test sets them
TestTargets == <<"check", "ptcheck", "time">>

\* a runtest set in the .eb file left as it is
TestCfg_keepsRuntest(c, i) ==
    IF Truthy(getcfg(c, "runtest")) THEN c
    ELSE setcfg(c, "runtest", Some(TestTargets[i]))

\* self.cfg after the i-th setcfg('runtest', ...) of test
TestCfg(c, i) == setcfg(c, "runtest", Some(TestTargets[i]))

\* test honouring a runtest set in the .eb file instead of its own targets
TestCmds_toggle(c, ecs) ==
    IF Truthy(getcfg(c, "runtest")) THEN Application_test_cmds(c, ecs[1])
    ELSE Application_test_cmds(TestCfg(c, 1), ecs[1])
         \o Application_test_cmds(TestCfg(c, 2), ecs[2])
         \o Application_test_cmds(TestCfg(c, 3), ecs[3])

\* test giving up at the first target that fails
TestCmds_stopOnFailure(c, ecs) ==
    Application_test_cmds(TestCfg(c, 1), ecs[1])
    \o (IF ecs[1] # 0 THEN << >>
        ELSE Application_test_cmds(TestCfg(c, 2), ecs[2])
             \o (IF ecs[2] # 0 THEN << >>
                 ELSE Application_test_cmds(TestCfg(c, 3), ecs[3])))

\* the commands test hands to the shell (lines 111, 115, 119)
TestCmds(c, ecs) ==
    Application_test_cmds(TestCfg(c, 1), ecs[1])
    \o Application_test_cmds(TestCfg(c, 2), ecs[2])
    \o Application_test_cmds(TestCfg(c, 3), ecs[3])

\* lines 106-107: the warning about a runtest set in the .eb file
TestWarning(c) ==
    IF Truthy(getcfg(c, "runtest"))
    THEN <<LogRecord("warning", "ATLAS testing is done using 'make check' and 'make ptcheck', so no need to set 'runtest' in the .eb spec file.")>>
    ELSE << >>

TestLog(c, ecs) ==
    TestWarning(c)
    \o Application_test_log(TestCfg(c, 1), ecs[1])
    \o Application_test_log(TestCfg(c, 2), ecs[2])
    \o Application_test_log(TestCfg(c, 3), ecs[3])

Test ==
    /\ stage = "test"
    /\ \E ecs \in [1..3 -> ExitCodes] :
          /\ cmds' = cmds \o TestCmds(cfg, ecs)
          /\ log' = log \o TestLog(cfg, ecs)
    /\ cfg' = TestCfg(cfg, 3)
    /\ Driver("test", NoFailure)
    /\ UNCHANGED <<installdir, env, tkpic, cwd, objExists>>

----------------------------------------------------------------------------
(* make_install is not overridden: the default install step *)

MakeInstall ==
    /\ stage = "make_install"
    /\ \E ec \in ExitCodes :
          /\ cmds' = Append(cmds, Command("make_install", <<"make install">>,
                                          cwd, ec, << >>))
          /\ Driver("make_install", StepError(ec))
    /\ UNCHANGED <<cfg, installdir, env, tkpic, cwd, objExists, log>>

----------------------------------------------------------------------------
(* ATLAS.sanitycheck *)

\* line 129
libs == <<"atlas", "cblas", "f77blas", "lapack", "ptcblas", "ptf77blas">>

\* line 131
static_libs == [i \in 1..Len(libs) |-> "lib/lib" \o libs[i] \o ".a"]

\* the shared objects required whatever sharedlibs says
shared_libs_always(c) ==
    [i \in 1..Len(libs) |-> "lib/lib" \o libs[i] \o ".so"]

\* lines 133-136
shared_libs(c) ==
    IF getcfg(c, "sharedlibs")
    THEN [i \in 1..Len(libs) |-> "lib/lib" \o libs[i] \o ".so"]
    ELSE << >>

\* line 138: ["include/%s" % x for x in ["cblas.h", "clapack.h"]]
headers ==
    LET names == <<"cblas.h", "clapack.h">>
    IN  [i \in 1..Len(names) |-> "include/" \o names[i]]

\* lines 138-141: the package's own manifest
DefaultSanityCheckPaths(c) ==
    [files |-> headers \o static_libs \o shared_libs(c),
     dirs |-> <<"include/atlas">>]

\* the package's manifest stored whatever sanityCheckPaths holds
SanitycheckCfg_always(c) ==
    setcfg(c, "sanityCheckPaths", Some(DefaultSanityCheckPaths(c)))

\* lines 127-141: self.cfg when Application.sanitycheck is called
SanitycheckCfg(c) ==
    IF getcfg(c, "sanityCheckPaths") = None
    THEN setcfg(c, "sanityCheckPaths", Some(DefaultSanityCheckPaths(c)))
    ELSE c

\* line 143
SanitycheckLog(c) ==
    IF getcfg(c, "sanityCheckPaths") = None
    THEN <<LogRecord("info", "Customized sanity check paths: %s")>>
    ELSE << >>

\* the paths of a manifest, files first
ManifestPaths(m) == m.files \o m.dirs

\* Application.sanitycheck(self): every path of the manifest must exist
\* below the install directory; missing is the first one that does not
Application_sanitycheck(c, missing) ==
    IF missing = None THEN NoFailure
    ELSE Error("SanityCheckFailed", missing[1])

\* the outcomes of the existence check tried: nothing is missing, or the
\* first or the last path of the manifest is the first one missing
MissingChoices(m) ==
    LET paths == ManifestPaths(m)
    IN  {None} \cup {Some(paths[i]) : i \in {1, Len(paths)}}

Sanitycheck ==
    /\ stage = "sanitycheck"
    /\ cfg' = SanitycheckCfg(cfg)
    /\ log' = log \o SanitycheckLog(cfg)
    /\ \E missing \in MissingChoices(getcfg(SanitycheckCfg(cfg),
                                            "sanityCheckPaths")[1]) :
          Driver("sanitycheck",
                 Application_sanitycheck(SanitycheckCfg(cfg), missing))
    /\ UNCHANGED <<installdir, env, tkpic, cwd, objExists, cmds>>

----------------------------------------------------------------------------

Next ==
    \/ Configure
    \/ SetParallelism
    \/ Make
    \/ Test
    \/ MakeInstall
    \/ Sanitycheck

Spec == Init /\ [][Next]_vars

----------------------------------------------------------------------------
(* Vocabulary of the properties *)

\* the driver has called stage stg
Ran(stg) == \E i \in 1..Len(done) : done[i] = stg

\* the last stage the driver has called
LastRan == IF done = << >> THEN "none" ELSE done[Len(done)]

\* the command lines a stage handed to the shell, in order
CmdLinesOf(stg) ==
    LET own == SelectSeq(cmds, LAMBDA e : e.stage = stg)
    IN  [i \in 1..Len(own) |-> own[i].cmd]

\* the configure command was handed to the shell
ConfigureIssued == cmds # << >> /\ cmds[1].stage = "configure"

\* the configopts part of the configure command line handed to the shell
IssuedConfigopts == SubSeq(cmds[1].cmd, 4, Len(cmds[1].cmd))

\* the flags of configure steps 1-4 for the options and environment at hand
MandatedFlags ==
    <<"-b 64">>
    \o (IF cfg.ignorethrottling THEN <<"-Si cputhrchk 0">> ELSE << >>)
    \o (IF cfg.full_lapack
        THEN <<" --with-netlib-lapack=" \o env.SOFTROOTLAPACK[1]
               \o "/lib/liblapack.a">>
        ELSE << >>)
    \o (IF cfg.sharedlibs \/ tkpic THEN <<"-Fa alg -fPIC">> ELSE << >>)

\* the fragment of configure step 6, naming the compilers
CompilerFragment ==
    "-C ic " \o (IF env.CC = None THEN "None" ELSE env.CC[1])
    \o " -C if " \o (IF env.F77 = None THEN "None" ELSE env.F77[1])

\* the shared-library command was run and failed
SharedCmdFailed ==
    \E i \in 1..Len(cmds) : cmds[i].cmd = <<SharedCmd>> /\ cmds[i].ec # 0

----------------------------------------------------------------------------
(* C1 *)

\* C1, as stated: when the configure command is issued, configopts holds
\* exactly the flags of configure steps 1-4, in that order, and no others.
C1_OnlyMandatedFlags == ConfigureIssued => IssuedConfigopts = MandatedFlags

\* C1, amended: the step in which configure issues its command appends to
\* the configopts it found exactly the flags of steps 1-4, in that order,
\* followed by the compiler fragment of step 6 and nothing else, and the
\* command line carries the resulting configopts.
C1_AppendedFlags ==
    [][(stage = "configure" /\ cmds' # cmds) =>
          /\ cfg'.configopts =
                cfg.configopts \o MandatedFlags \o <<CompilerFragment>>
          /\ SubSeq(cmds'[1].cmd, 4, Len(cmds'[1].cmd)) = cfg'.configopts]_vars

C1_Witness ==
    /\ ConfigureIssued
    /\ cfg.ignorethrottling /\ cfg.full_lapack /\ ~cfg.sharedlibs /\ tkpic
    /\ Len(IssuedConfigopts) = 5

(* C2 *)

\* C2: with full_lapack set and no LAPACK root in the environment (unset or
\* empty), configure fails with MissingDependency, no command was handed to
\* the shell, and the build is aborted.
C2_MissingLapackBeforeCommands ==
    (/\ Ran("configure")
     /\ cfg.full_lapack
     /\ (env.SOFTROOTLAPACK = None \/ env.SOFTROOTLAPACK = Some("")))
    => /\ failure.kind = "MissingDependency"
       /\ cmds = << >>
       /\ stage = "aborted"

C2_Witness ==
    /\ Ran("configure")
    /\ cfg.full_lapack
    /\ env.SOFTROOTLAPACK = Some("")
    /\ failure.kind = "MissingDependency"

(* C3 *)

\* the sample outputs that contain "cpu throttling <letters> enabled",
\* whatever the case of the letters
ThrottledOutputs == {OutWasEnabled, OutEmbedded, OutNoWord}

\* C3: a configure command that exits nonzero with an output containing the
\* throttling pattern makes configure fail with ThrottlingDetected and the
\* remediation hint, not with ConfigureFailed.
C3_ThrottlingDetected ==
    (/\ ConfigureIssued
     /\ cmds[1].ec # 0
     /\ cmds[1].out \in ThrottledOutputs)
    => /\ failure.kind = "ThrottlingDetected"
       /\ failure.text = ThrottlingHint
       /\ failure.out = None

C3_Witness ==
    /\ ConfigureIssued
    /\ cmds[1].ec # 0
    /\ cmds[1].out = OutWasEnabled
    /\ failure.kind = "ThrottlingDetected"

(* C4 *)

\* the sample outputs that do not contain the throttling pattern
PlainOutputs ==
    {OutOneSpace, OutTwoWords, OutDigit, OutNoCompiler, OutEmpty}

\* C4: a configure command that exits nonzero with an output that does not
\* match the throttling pattern makes configure fail with ConfigureFailed,
\* and the error message carries the captured output.
C4_ConfigureFailedWithOutput ==
    (/\ ConfigureIssued
     /\ cmds[1].ec # 0
     /\ cmds[1].out \in PlainOutputs)
    => /\ failure.kind = "ConfigureFailed"
       /\ failure.out = Some(cmds[1].out)

C4_Witness ==
    /\ ConfigureIssued
    /\ cmds[1].ec # 0
    /\ cmds[1].out = OutNoCompiler
    /\ failure.kind = "ConfigureFailed"
    /\ failure.out = Some(OutNoCompiler)

(* C5 *)

\* C5: setparallelism leaves parallel at 1 whatever was requested, and
\* every step taken after it starts and ends with parallel at 1.
C5_ParallelismOne ==
    [][/\ stage = "setparallelism" => cfg'.parallel = 1
       /\ Ran("setparallelism") => cfg.parallel = 1 /\ cfg'.parallel = 1]_vars

C5_Witness ==
    /\ Ran("setparallelism") /\ Ran("make") /\ Ran("test")
    /\ Ran("sanitycheck")
    /\ cfg.parallel = 1

(* C6 *)

StaticArchives ==
    {"lib/libatlas.a", "lib/libcblas.a", "lib/libf77blas.a",
     "lib/liblapack.a", "lib/libptcblas.a", "lib/libptf77blas.a"}

SharedObjects ==
    {"lib/libatlas.so", "lib/libcblas.so", "lib/libf77blas.so",
     "lib/liblapack.so", "lib/libptcblas.so", "lib/libptf77blas.so"}

HeaderFiles == {"include/cblas.h", "include/clapack.h"}

\* m is the whole manifest of the package for sharedlibs = shared
WholeManifest(m, shared) ==
    LET files == {m.files[i] : i \in 1..Len(m.files)}
    IN  /\ files = StaticArchives \cup HeaderFiles
                   \cup (IF shared THEN SharedObjects ELSE {})
        /\ Len(m.files) = Cardinality(files)
        /\ m.dirs = <<"include/atlas">>

\* C6: sanityCheckPaths is only ever unset, the manifest it was given, or
\* the whole manifest of the package: the six static archives, the two
\* headers and the directory include/atlas, with the six shared objects when
\* sharedlibs is set and with no .so otherwise.  After sanitycheck ran on an
\* unset sanityCheckPaths it is that whole manifest.
C6_DefaultManifest ==
    /\ \/ cfg.sanityCheckPaths = None
       \/ cfg.sanityCheckPaths = Some(PresetSanityCheckPaths)
       \/ WholeManifest(cfg.sanityCheckPaths[1], cfg.sharedlibs)
    /\ (Ran("sanitycheck")
        /\ cfg.sanityCheckPaths # Some(PresetSanityCheckPaths))
       => /\ cfg.sanityCheckPaths # None
          /\ WholeManifest(cfg.sanityCheckPaths[1], cfg.sharedlibs)

C6_Witness ==
    /\ Ran("sanitycheck")
    /\ ~cfg.sharedlibs
    /\ cfg.sanityCheckPaths # None
    /\ Len(cfg.sanityCheckPaths[1].files) = 8

(* C7 *)

\* C7, as stated: after configure and after make, on success and on failure,
\* the working directory is the one the stage was entered with.
C7_AlwaysRestored == LastRan \in {"configure", "make"} => cwd = cwdOnEntry

\* C7, amended: configure does not restore the working directory: once it
\* has entered obj it stays there, when it returns and when it fails, and
\* the directory is the one of entry only when configure fails before
\* entering obj.  make restores the directory it was entered with when it
\* returns and on every failure but that of the change back out of lib,
\* after which the working directory is still lib.
C7_RestoredByMakeOnly ==
    /\ LastRan = "configure" =>
          cwd = IF ConfigureIssued THEN Append(cwdOnEntry, "obj")
                ELSE cwdOnEntry
    /\ LastRan = "make" =>
          cwd = IF failure.kind = "EnvironmentSetupError"
                THEN Append(cwdOnEntry, "lib")
                ELSE cwdOnEntry

C7_Witness ==
    /\ LastRan = "make"
    /\ failure = NoFailure
    /\ \E i \in 1..Len(cmds) :
          cmds[i].cmd = <<SharedCmd>> /\ cmds[i].cwd = <<"obj", "lib">>
    /\ cwd = <<"obj">>

(* C8 *)

\* C8: once test has run, the commands it handed to the shell are make
\* check, make ptcheck and make time, in this order, whether or not runtest
\* was set before; a runtest that was set shows as a warning only.
C8_FixedTestTargets ==
    Ran("test") =>
        CmdLinesOf("test") = <<<<"make check">>, <<"make ptcheck">>,
                               <<"make time">>>>

C8_Witness ==
    /\ Ran("test")
    /\ \E i \in 1..Len(log) :
          log[i] = LogRecord("warning", "ATLAS testing is done using 'make check' and 'make ptcheck', so no need to set 'runtest' in the .eb spec file.")
    /\ Len(CmdLinesOf("test")) = 3

(* C9 *)

\* C9: when the shared-library command fails, make reports it in the log,
\* goes on to change back out of lib, and unless that change itself fails
\* it returns in the directory it was entered with, no error is raised and
\* the driver goes on to test.
C9_SharedFailureNotFatal ==
    (LastRan = "make" /\ SharedCmdFailed) =>
        /\ \E i \in 1..Len(log) : log[i] = LogRecord("warning", SharedCmd)
        /\ \/ failure = NoFailure /\ stage = "test" /\ cwd = cwdOnEntry
           \/ /\ failure.kind = "EnvironmentSetupError"
              /\ cwd = Append(cwdOnEntry, "lib")

C9_Witness ==
    /\ SharedCmdFailed
    /\ Ran("test")
    /\ failure = NoFailure
    /\ cwd = <<"obj">>

(* C10 *)

\* the stage of every command handed to the shell is one the driver called
CmdsOfCalledStages == \A i \in 1..Len(cmds) : Ran(cmds[i].stage)

\* what has and has not happened when an error has been raised
AbortedAtOnce ==
    failure # NoFailure =>
        /\ stage = "aborted"
        /\ CmdsOfCalledStages
        /\ failure.kind = "MissingDependency" =>
              /\ LastRan = "configure"
              /\ cmds = << >>
              /\ cwd = cwdOnEntry
              /\ \A i \in 1..Len(cfg.configopts) :
                    cfg.configopts[i] \notin {"-Fa alg -fPIC", CompilerFragment}
        /\ (failure.kind = "EnvironmentSetupError" /\ LastRan = "configure") =>
              /\ cmds = << >>
              /\ \A i \in 1..Len(cfg.configopts) :
                    cfg.configopts[i] # CompilerFragment
        /\ failure.kind \in {"ThrottlingDetected", "ConfigureFailed"} =>
              /\ LastRan = "configure"
              /\ Len(cmds) = 1
        /\ (failure.kind = "EnvironmentSetupError" /\ LastRan = "make") =>
              cmds[Len(cmds)].cmd = <<SharedCmd>>
        /\ failure.kind = "SanityCheckFailed" =>
              /\ LastRan = "sanitycheck"
              /\ cmds[Len(cmds)].stage = "make_install"

\* C10: a raised error aborts the build at once: the stage that raised it
\* did nothing after the point of the error, it is the last stage called,
\* and no step at all is taken once an error has been raised, so no later
\* stage runs and no further command is handed to the shell.
C10_FatalAborts == []AbortedAtOnce /\ [][failure = NoFailure]_vars

C10_Witness ==
    /\ failure.kind = "EnvironmentSetupError"
    /\ done = <<"configure">>
    /\ stage = "aborted"
    /\ cmds = << >>

(* C11 *)

\* C11: a sanitycheck step that finds sanityCheckPaths set leaves the whole
\* configuration as it is and has the existence check run on the manifest
\* it found: an error it raises names a path of that manifest.  The
\* package's own manifest is stored only by a step that finds it unset.
C11_SuppliedManifestKept ==
    [][stage = "sanitycheck" =>
          /\ cfg.sanityCheckPaths # None =>
                /\ cfg' = cfg
                /\ failure' # NoFailure =>
                      /\ failure'.kind = "SanityCheckFailed"
                      /\ \E i \in 1..Len(ManifestPaths(cfg.sanityCheckPaths[1])) :
                            ManifestPaths(cfg.sanityCheckPaths[1])[i]
                               = failure'.text
          /\ cfg'.sanityCheckPaths # cfg.sanityCheckPaths =>
                cfg.sanityCheckPaths = None]_vars

C11_Witness ==
    /\ Ran("sanitycheck")
    /\ cfg.sanityCheckPaths = Some(PresetSanityCheckPaths)
    /\ failure.kind = "SanityCheckFailed"
    /\ failure.text = "include"

(* C12 *)

\* the entries of the commands test handed to the shell
TestEntries == SelectSeq(cmds, LAMBDA e : e.stage = "test")

\* C12: whatever the exit codes of the test targets, test runs all three of
\* them, raises no error, reports every failing target in the log, and the
\* driver goes on to the install step.
C12_AllTargetsRun ==
    Ran("test") =>
        /\ Len(TestEntries) = 3
        /\ TestEntries[1].cmd = <<"make check">>
        /\ TestEntries[2].cmd = <<"make ptcheck">>
        /\ TestEntries[3].cmd = <<"make time">>
        /\ \A i \in 1..3 :
              TestEntries[i].ec # 0 =>
                 \E j \in 1..Len(log) :
                    log[j] = LogRecord("warning", TestEntries[i].cmd[1])
        /\ LastRan = "test" => failure = NoFailure /\ stage = "make_install"

C12_Witness ==
    /\ LastRan = "test"
    /\ Len(TestEntries) = 3
    /\ TestEntries[1].ec # 0
    /\ TestEntries[2].ec # 0
    /\ TestEntries[3].ec = 0

(* C13 *)

\* the LAPACK check of configure passes in the current state
LapackCheckPasses ==
    ~(cfg.full_lapack
      /\ (env.SOFTROOTLAPACK = None \/ env.SOFTROOTLAPACK = Some("")))

\* f occurs in the configopts of configuration c
HasOpt(c, f) == \E i \in 1..Len(c.configopts) : c.configopts[i] = f

\* C13: a configure step that gets as far as creating obj while obj already
\* exists fails with EnvironmentSetupError, and a configure step that fails
\* with EnvironmentSetupError, whatever made the creation or the entering of
\* obj fail, has not appended the compiler fragment, has handed no command
\* to the shell and has left the working directory alone.
C13_ObjdirFailure ==
    [][stage = "configure" =>
          /\ (objExists /\ LapackCheckPasses) =>
                failure'.kind = "EnvironmentSetupError"
          /\ failure'.kind = "EnvironmentSetupError" =>
                /\ ~HasOpt(cfg', CompilerFragment)
                /\ Len(cfg'.configopts) <= Len(cfg.configopts) + 4
                /\ cmds' = << >>
                /\ cwd' = cwd
                /\ stage' = "aborted"]_vars

C13_Witness ==
    /\ done = <<"configure">>
    /\ objExists
    /\ failure.kind = "EnvironmentSetupError"
    /\ HasOpt(cfg, "-Fa alg -fPIC")
    /\ ~HasOpt(cfg, CompilerFragment)

(* C14 *)

\* the default make of the make stage returned, and the shared-library
\* command was or was not handed to the shell after it
DefaultMakeReturned ==
    \E i \in 1..Len(cmds) :
       cmds[i].stage = "make" /\ cmds[i].cmd = <<"make">> /\ cmds[i].ec = 0

SharedCmdRun == \E i \in 1..Len(cmds) : cmds[i].cmd = <<SharedCmd>>

\* C14, as stated: in make with sharedlibs set, a failure to change into lib
\* (the default make returned, the shared-library command was not run) and
\* a failure to change back out of it (the command was run, make raised)
\* are both an EnvironmentSetupError, and the command is not run when
\* entering lib fails.
C14_ChdirFailuresAreSetupErrors ==
    (LastRan = "make" /\ cfg.sharedlibs /\ DefaultMakeReturned) =>
        /\ ~SharedCmdRun => failure.kind = "EnvironmentSetupError"
        /\ (SharedCmdRun /\ failure # NoFailure) =>
              failure.kind = "EnvironmentSetupError"

(* C15 *)

\* a build with ignorethrottling and full_lapack off, sharedlibs on and no
\* manifest supplied, in which every command exited with 0, has come to its
\* end
PlainSharedBuildDone ==
    /\ stage = "done"
    /\ ~cfg.ignorethrottling /\ ~cfg.full_lapack /\ cfg.sharedlibs
    /\ cfg.sanityCheckPaths # Some(PresetSanityCheckPaths)
    /\ \A i \in 1..Len(cmds) : cmds[i].ec = 0

\* C15: at the end of such a build the stages were called once each in
\* their order, and the commands handed to the shell are, once each and in
\* this order, the configure command, the default make, the shared-library
\* command, make check, make ptcheck, make time and (from the default
\* install step) make install; the sanity check that then passed was over
\* the 6 static and 6 shared libraries, the 2 headers and the directory
\* include/atlas.
C15_EndToEndOrder ==
    PlainSharedBuildDone =>
        /\ done = <<"configure", "setparallelism", "make", "test",
                    "make_install", "sanitycheck">>
        /\ failure = NoFailure
        /\ Len(cmds) = 7
        /\ cmds[1].stage = "configure"
        /\ cmds[1].cmd[2] = "/build/ATLAS/configure"
        /\ [i \in 1..6 |-> cmds[i + 1].cmd] =
              <<<<"make">>, <<"make shared cshared ptshared cptshared">>,
                <<"make check">>, <<"make ptcheck">>, <<"make time">>,
                <<"make install">>>>
        /\ cfg.sanityCheckPaths # None
        /\ WholeManifest(cfg.sanityCheckPaths[1], TRUE)
        /\ Len(cfg.sanityCheckPaths[1].files) = 14
        /\ Len(cfg.sanityCheckPaths[1].dirs) = 1

C15_Witness == PlainSharedBuildDone /\ Len(cmds) = 7 /\ ~tkpic

(* C16 *)

\* C16: once the configure command was run, configure raised an error
\* exactly when the exit code was not 0; with exit code 0 it returned and the
\* driver went on, whatever the output, the outputs that match the
\* throttling pattern included.
C16_SuccessIffExitZero ==
    (LastRan = "configure" /\ ConfigureIssued) =>
        /\ cmds[1].ec = 0 <=> failure = NoFailure
        /\ cmds[1].ec = 0 => stage = "setparallelism"
        /\ cmds[1].ec # 0 =>
              failure.kind \in {"ThrottlingDetected", "ConfigureFailed"}

C16_Witness ==
    /\ LastRan = "configure"
    /\ ConfigureIssued
    /\ cmds[1].ec = 0
    /\ cmds[1].out = OutWasEnabled
    /\ failure = NoFailure

(* C17 *)

\* the manifest stored is the package's own and requires a shared object
RequiresSharedObjects ==
    /\ cfg.sanityCheckPaths # None
    /\ cfg.sanityCheckPaths # Some(PresetSanityCheckPaths)
    /\ \E i \in 1..Len(cfg.sanityCheckPaths[1].files) :
          cfg.sanityCheckPaths[1].files[i] \in SharedObjects

\* sanitycheck has computed the package's own manifest
OwnManifestComputed ==
    Ran("sanitycheck") /\ cfg.sanityCheckPaths # Some(PresetSanityCheckPaths)

\* C17: once make has returned, the shared-library command was run exactly
\* when sharedlibs is set, and once sanitycheck has computed the package's
\* manifest, it requires shared objects exactly when sharedlibs is set, so
\* the command was run exactly when the manifest requires them.  With
\* sharedlibs off and the toolkit's pic option on, the configure command
\* carries the -fPIC flag, but make runs no shared-library command and the
\* manifest requires no shared object.
C17_SharedBuildMatchesManifest ==
    /\ Ran("test") => (SharedCmdRun <=> cfg.sharedlibs)
    /\ OwnManifestComputed =>
          /\ RequiresSharedObjects <=> cfg.sharedlibs
          /\ RequiresSharedObjects <=> SharedCmdRun
    /\ (~cfg.sharedlibs /\ tkpic) =>
          /\ ConfigureIssued =>
                \E i \in 1..Len(IssuedConfigopts) :
                   IssuedConfigopts[i] = "-Fa alg -fPIC"
          /\ ~SharedCmdRun
          /\ ~RequiresSharedObjects

C17_Witness ==
    /\ OwnManifestComputed
    /\ ~cfg.sharedlibs /\ tkpic
    /\ \E i \in 1..Len(IssuedConfigopts) :
          IssuedConfigopts[i] = "-Fa alg -fPIC"
    /\ ~SharedCmdRun

(* C18 *)

\* C18: the test step leaves runtest at 'time', whatever it was before, and
\* changes no other field of the configuration nor the install directory;
\* no later step sets runtest back.
C18_RuntestOverwritten ==
    [][/\ stage = "test" =>
             /\ cfg'.runtest = Some("time")
             /\ \A f \in DOMAIN cfg : f # "runtest" => cfg'[f] = cfg[f]
             /\ DOMAIN cfg' = DOMAIN cfg
             /\ installdir' = installdir
       /\ Ran("test") => cfg.runtest = Some("time") /\ cfg'.runtest = Some("time")
      ]_vars

C18_Witness ==
    /\ LastRan = "test"
    /\ Len(TestEntries) = 3
    /\ cfg.runtest = Some("time")
    /\ \E i \in 1..Len(log) :
          log[i].level = "warning" /\ log[i].msg # "make check"
          /\ log[i].msg # "make ptcheck" /\ log[i].msg # "make time"

(* C19 *)

\* the entries of the commands make handed to the shell
MakeEntries == SelectSeq(cmds, LAMBDA e : e.stage = "make")

\* make has just returned and all its commands exited with 0
MakeSucceeded ==
    /\ LastRan = "make"
    /\ failure = NoFailure
    /\ \A i \in 1..Len(MakeEntries) : MakeEntries[i].ec = 0

\* C19: when make has returned with every step succeeding and sharedlibs
\* is set, it ran the default make in the directory it was entered with,
\* then the shared-library command in the lib directory below it, and the
\* working directory is again the one of entry.  With sharedlibs off, make
\* ran the default make only and the working directory never changed.
C19_SharedBuildInLib ==
    /\ (MakeSucceeded /\ cfg.sharedlibs) =>
          /\ Len(MakeEntries) = 2
          /\ MakeEntries[1].cmd = <<"make">>
          /\ MakeEntries[1].cwd = cwdOnEntry
          /\ MakeEntries[2].cmd = <<"make shared cshared ptshared cptshared">>
          /\ MakeEntries[2].cwd = Append(cwdOnEntry, "lib")
          /\ cwd = cwdOnEntry
    /\ (LastRan = "make" /\ ~cfg.sharedlibs) =>
          /\ Len(MakeEntries) = 1
          /\ MakeEntries[1].cmd = <<"make">>
          /\ MakeEntries[1].cwd = cwdOnEntry
          /\ cwd = cwdOnEntry

C19_Witness ==
    /\ MakeSucceeded
    /\ cfg.sharedlibs
    /\ Len(MakeEntries) = 2
    /\ MakeEntries[2].cwd = <<"obj", "lib">>
    /\ cwd = <<"obj">>
    /\ stage = "test"
============================================================================
